---- MODULE Spec2Model ----
\* Model of rust_units: dimensioned quantities, units and the dimension tags
\* they carry.  The library is a set of pure functions over values; every
\* specification below draws the operands in Init and applies the library's
\* operations as actions.
EXTENDS Integers, Naturals, Sequences, FiniteSets, TLC

\* ------------------------------------------------------------------------
\* Bounds of the model.
\* f64 is modelled as a binary floating-point format of the same shape
\* (sign, Prec significant bits, gradual underflow, infinities, one NaN,
\* round to nearest, ties to even).  A finite magnitude is a natural number
\* of units of 2^-FracBits; magnitudes below 2^Prec are spaced one unit apart
\* and MaxBinade further binades follow, each doubling the spacing.
Prec == 3
MaxBinade == 3
FracBits == 2
\* Dimension exponents the operands are drawn from: -MaxExp .. MaxExp.
MaxExp == 1

VARIABLES
    pc,       \* the position of the caller: which operation ran last
    amount,   \* the raw number handed to a unit's new / set
    madeBy,   \* the unit that constructed qty
    qty,      \* the quantity under construction / extraction
    readBy,   \* the unit that extracted out
    out,      \* the raw number a unit's get returned
    lhs,      \* left operand of a quantity operator
    rhs,      \* right operand of a quantity operator
    qres,     \* result of a quantity operator
    ul,       \* left operand of a unit operator
    ur,       \* right operand of a unit operator
    ures,     \* result of a unit operator
    da,       \* dimension operands
    db,
    dc,
    dres      \* result of a dimension operation

vars == <<pc, amount, madeBy, qty, readBy, out, lhs, rhs, qres, ul, ur, ures,
          da, db, dc, dres>>

\* ------------------------------------------------------------------------
\* f64 arithmetic (the operators *, /, +, -, %, unary - and == on f64 that the
\* library's generic code is instantiated with).

RECURSIVE Pow2(_)
Pow2(n) == IF n = 0 THEN 1 ELSE 2 * Pow2(n - 1)

\* The finite magnitudes, in units of 2^-FracBits.
Mags ==
    (0 .. (Pow2(Prec) - 1)) \cup
    { m * Pow2(e) : m \in Pow2(Prec - 1) .. (Pow2(Prec) - 1), e \in 1 .. MaxBinade }

MaxMag == (Pow2(Prec) - 1) * Pow2(MaxBinade)

Fin(neg, mag) == [cls |-> "fin", neg |-> neg, mag |-> mag]
Inf(neg) == [cls |-> "inf", neg |-> neg, mag |-> 0]
NaN == [cls |-> "nan", neg |-> FALSE, mag |-> 0]

Floats ==
    { Fin(n, m) : n \in BOOLEAN, m \in Mags } \cup { Inf(n) : n \in BOOLEAN } \cup { NaN }

IsFinite(x) == x.cls = "fin"
IsZero(x) == x.cls = "fin" /\ x.mag = 0
IsNaN(x) == x.cls = "nan"

\* The literal n (an integer >= 0) and the literal 2^-n.
Lit(n) == Fin(FALSE, n * Pow2(FracBits))
One == Lit(1)
Two == Lit(2)
Half == Fin(FALSE, Pow2(FracBits - 1))
Zero == Lit(0)

\* The binade of the non-negative rational num/den: the least e with
\* num/den < 2^(Prec+e); MaxBinade + 1 when there is none within the format.
Binade(num, den) ==
    LET fits == { e \in 0 .. MaxBinade : num < Pow2(Prec + e) * den }
    IN  IF fits = {} THEN MaxBinade + 1
        ELSE CHOOSE e \in fits : \A f \in fits : e <= f

\* Round the non-negative rational num/den (in units) to the nearest magnitude,
\* ties to the even significand; -1 stands for overflow.
RoundMag(num, den) ==
    LET e == Binade(num, den)
        d == den * Pow2(e)
        m == num \div d
        r == num % d
        up == (2 * r > d) \/ (2 * r = d /\ m % 2 = 1)
        res == (IF up THEN m + 1 ELSE m) * Pow2(e)
    IN  IF e > MaxBinade \/ res > MaxMag THEN -1 ELSE res

Rounded(neg, num, den) ==
    LET m == RoundMag(num, den)
    IN  IF m = -1 THEN Inf(neg) ELSE Fin(neg, m)

\* The spacing of the floats around the finite magnitude mag.
Ulp(mag) == Pow2(Binade(mag, 1))

\* f64 `*`
FMul(x, y) ==
    LET neg == (x.neg # y.neg)
    IN  CASE IsNaN(x) \/ IsNaN(y) -> NaN
          [] x.cls = "inf" \/ y.cls = "inf" ->
                IF IsZero(x) \/ IsZero(y) THEN NaN ELSE Inf(neg)
          [] OTHER -> Rounded(neg, x.mag * y.mag, Pow2(FracBits))

\* f64 `/`
FDiv(x, y) ==
    LET neg == (x.neg # y.neg)
    IN  CASE IsNaN(x) \/ IsNaN(y) -> NaN
          [] x.cls = "inf" -> IF y.cls = "inf" THEN NaN ELSE Inf(neg)
          [] y.cls = "inf" -> Fin(neg, 0)
          [] IsZero(y) -> IF IsZero(x) THEN NaN ELSE Inf(neg)
          [] OTHER -> Rounded(neg, x.mag * Pow2(FracBits), y.mag)

\* f64 unary `-`
FNeg(x) == IF IsNaN(x) THEN NaN ELSE [x EXCEPT !.neg = ~x.neg]

Signed(x) == IF x.neg THEN 0 - x.mag ELSE x.mag

\* f64 `+`
FAdd(x, y) ==
    CASE IsNaN(x) \/ IsNaN(y) -> NaN
      [] x.cls = "inf" -> IF y.cls = "inf" /\ y.neg # x.neg THEN NaN ELSE x
      [] y.cls = "inf" -> y
      [] OTHER ->
            LET s == Signed(x) + Signed(y)
            IN  IF s = 0 THEN Fin(x.neg /\ y.neg, 0)
                ELSE IF s < 0 THEN Rounded(TRUE, 0 - s, 1)
                ELSE Rounded(FALSE, s, 1)

\* f64 `-`
FSub(x, y) == FAdd(x, FNeg(y))

\* f64 `%` (the remainder of the truncated division, with the dividend's sign)
FRem(x, y) ==
    CASE IsNaN(x) \/ IsNaN(y) -> NaN
      [] x.cls = "inf" \/ IsZero(y) -> NaN
      [] y.cls = "inf" -> x
      [] OTHER -> Fin(x.neg, x.mag % y.mag)

\* f64 `==`
FEq(x, y) ==
    /\ ~IsNaN(x)
    /\ ~IsNaN(y)
    /\ \/ x = y
       \/ IsZero(x) /\ IsZero(y)

\* The place of a non-NaN float on the number line, in units (the infinities
\* lie beyond every finite magnitude; the two zeros share a place).
Place(x) ==
    IF x.cls = "inf" THEN (IF x.neg THEN 0 - (MaxMag + 1) ELSE MaxMag + 1)
    ELSE Signed(x)

\* f64 partial_cmp (and with it <, <=, >, >=): an Option<Ordering>
FPartialCmp(x, y) ==
    CASE IsNaN(x) \/ IsNaN(y) -> "None"
      [] Place(x) < Place(y) -> "Less"
      [] Place(x) > Place(y) -> "Greater"
      [] OTHER -> "Equal"

\* ------------------------------------------------------------------------
\* Dimensions.  A dimension is a type; the model carries it as the tuple of
\* its seven exponents (L, M, T, I, Th, N, J).

Dim7(l, m, t, i, th, n, j) == <<l, m, t, i, th, n, j>>
Dimensionless == Dim7(0, 0, 0, 0, 0, 0, 0)
Length == Dim7(1, 0, 0, 0, 0, 0, 0)
Mass == Dim7(0, 1, 0, 0, 0, 0, 0)
Time == Dim7(0, 0, 1, 0, 0, 0, 0)

Velocity == Dim7(1, 0, -1, 0, 0, 0, 0)

UnitDims == { Length, Time }
QtyDims == { Length, Time, Velocity }
Force == Dim7(1, 1, -2, 0, 0, 0, 0)

\* The dimensions the dimension operations are tried on: every power
\* -MaxExp .. MaxExp of every base dimension, and two derived dimensions.
DimSet ==
    { [i \in 1 .. 7 |-> IF i = j THEN e ELSE 0] : j \in 1 .. 7, e \in (0 - MaxExp) .. MaxExp }
        \cup { Velocity, Force }

\* ------------------------------------------------------------------------
\* core::Quantity<T, D>: a value of type T with the dimension tag D.

Quantity_from_si(value, D) == [ty |-> "core", value |-> value, dim |-> D]
Quantity_get_si(q) == q.value

\* crate::quantity::Quantity<Dim>: an f64 in SI units with the tag Dim.
LegacyQuantity_from(value, D) == [ty |-> "legacy", value |-> value, dim |-> D]
LegacyQuantity_into(q) == q.value

\* ------------------------------------------------------------------------
\* The operator traits of the dimension types.  core::Dimension is a marker
\* trait; Quantity and SIPropUnit take the result dimension of an operator from
\* the dimension types' own impls of std::ops (`Dl: Mul<Dr>`,
\* `<Dl as Mul<Dr>>::Output`), which the trait's documentation asks to be
\* "coherent".  The coherent impls are those of the dimension algebra:
\* Mul adds the exponents, Div subtracts them, Add / Sub / Rem exist between a
\* dimension and itself only and give it back, Neg gives the dimension back.

\* Faulty variant of Combine: subtracts the exponents.
CombineM(a, b) == [i \in 1 .. 7 |-> a[i] - b[i]]
Combine(a, b) == [i \in 1 .. 7 |-> a[i] + b[i]]
Negate(a) == [i \in 1 .. 7 |-> 0 - a[i]]
Identity == Dimensionless

\* Whether `Dl: Op<Dr>` has an impl.
DimImplements(op, Dl, Dr) ==
    IF op \in { "Mul", "Div" } THEN TRUE ELSE Dl = Dr

\* <Dl as Op<Dr>>::Output
DimOutput(op, Dl, Dr) ==
    CASE op = "Mul" -> Combine(Dl, Dr)
      [] op = "Div" -> Combine(Dl, Negate(Dr))
      [] OTHER -> Dl

\* Whether `D: Neg` has an impl, and <D as Neg>::Output
DimNegImplements(D) == TRUE
DimNegOutput(D) == D

\* D: AddAssign, D: MulAssign, ...: the bound the in-place operators put on
\* the dimension type.  Nothing else is asked of the type: the impl may exist
\* or not, for any D.
DimAssignImplements == BOOLEAN

\* ------------------------------------------------------------------------
\* The operators of core::Quantity.  X_bound is the impl's where clause on the
\* dimensions (the expression type-checks iff it holds), X the method.

\* Faulty variant of Quantity_add_bound: no bound on the dimensions.
Quantity_add_boundM(l, r) == TRUE
Quantity_add_bound(l, r) == DimImplements("Add", l.dim, r.dim)
\* Faulty variant of Quantity_add: multiplies the magnitudes.
Quantity_addM(l, r) ==
    Quantity_from_si(FMul(Quantity_get_si(l), Quantity_get_si(r)),
                     DimOutput("Add", l.dim, r.dim))
Quantity_add(l, r) ==
    Quantity_from_si(FAdd(Quantity_get_si(l), Quantity_get_si(r)),
                     DimOutput("Add", l.dim, r.dim))

Quantity_div_bound(l, r) == DimImplements("Div", l.dim, r.dim)
\* Faulty variant of Quantity_div: tags the quotient with the Mul output.
Quantity_divM(l, r) ==
    Quantity_from_si(FDiv(Quantity_get_si(l), Quantity_get_si(r)),
                     DimOutput("Mul", l.dim, r.dim))
Quantity_div(l, r) ==
    Quantity_from_si(FDiv(Quantity_get_si(l), Quantity_get_si(r)),
                     DimOutput("Div", l.dim, r.dim))

Quantity_mul_bound(l, r) == DimImplements("Mul", l.dim, r.dim)
Quantity_mul(l, r) ==
    Quantity_from_si(FMul(Quantity_get_si(l), Quantity_get_si(r)),
                     DimOutput("Mul", l.dim, r.dim))

Quantity_neg_bound(q) == DimNegImplements(q.dim)
\* Faulty variant of Quantity_neg: keeps the sign.
Quantity_negM(q) == Quantity_from_si(Quantity_get_si(q), DimNegOutput(q.dim))
Quantity_neg(q) == Quantity_from_si(FNeg(Quantity_get_si(q)), DimNegOutput(q.dim))

Quantity_rem_bound(l, r) == DimImplements("Rem", l.dim, r.dim)
Quantity_rem(l, r) ==
    Quantity_from_si(FRem(Quantity_get_si(l), Quantity_get_si(r)),
                     DimOutput("Rem", l.dim, r.dim))

Quantity_sub_bound(l, r) == DimImplements("Sub", l.dim, r.dim)
Quantity_sub(l, r) ==
    Quantity_from_si(FSub(Quantity_get_si(l), Quantity_get_si(r)),
                     DimOutput("Sub", l.dim, r.dim))

\* The in-place operators of Quantity<T, D>: rhs is Self, a Quantity<T, D> of
\* the same D, D has the in-place operator, and self keeps its type;
\* *self.get_mut_si() op= rhs.get_si().
Quantity_assign_bound(q, r, has) == r.dim = q.dim /\ has

Quantity_add_assign(q, r) == [q EXCEPT !.value = FAdd(q.value, Quantity_get_si(r))]

Quantity_div_assign(q, r) == [q EXCEPT !.value = FDiv(q.value, Quantity_get_si(r))]

\* Faulty variant of Quantity_mul_assign: the left operand becomes the product
\* by value, tag included.
Quantity_mul_assignM(q, r) == Quantity_mul(q, r)
Quantity_mul_assign(q, r) == [q EXCEPT !.value = FMul(q.value, Quantity_get_si(r))]

Quantity_rem_assign(q, r) == [q EXCEPT !.value = FRem(q.value, Quantity_get_si(r))]

Quantity_sub_assign(q, r) == [q EXCEPT !.value = FSub(q.value, Quantity_get_si(r))]

\* Comparison of core::Quantity: impl PartialEq / PartialOrd for Quantity<T, D>
\* have Rhs = Self, so both operands have the type Quantity<T, D> of one D.
\* (Eq and Ord need T: Eq / T: Ord, which f64 is not.)
Quantity_cmp_bound(l, r) == l.ty = r.ty /\ l.dim = r.dim
Quantity_eq(l, r) == FEq(l.value, r.value)
\* Faulty variant of Quantity_partial_cmp: the operands swapped.
Quantity_partial_cmpM(l, r) == FPartialCmp(r.value, l.value)
Quantity_partial_cmp(l, r) == FPartialCmp(l.value, r.value)

\* PhantomData<Dim> compares equal to itself.
PhantomData_eq == TRUE
PhantomData_partial_cmp == "Equal"

\* #[derive(PartialEq, PartialOrd)] on crate::quantity::Quantity<Dim>: the
\* fields value and dimension in order, between two values of one type.
LegacyQuantity_eq(l, r) == FEq(l.value, r.value) /\ PhantomData_eq
LegacyQuantity_partial_cmp(l, r) ==
    LET c == FPartialCmp(l.value, r.value)
    IN  IF c = "Equal" THEN PhantomData_partial_cmp ELSE c

\* ------------------------------------------------------------------------
\* Units.  A unit value is its Rust type (kind), its dimension tag and, for
\* the structs that store one, the proportionality constant.  SIUnit and
\* SIUnitTyped store no constant: their k field is a placeholder no operation
\* reads.

SIUnit_new(D) == [kind |-> "SIUnit", k |-> NaN, dim |-> D]
SIUnitTyped_new(D) == [kind |-> "SIUnitTyped", k |-> NaN, dim |-> D]
\* Faulty variant of SIPropUnit_new: a zero constant is refused.
SIPropUnit_newM(prop_constant, D) ==
    IF IsZero(prop_constant) THEN [kind |-> "refused", k |-> NaN, dim |-> D]
    ELSE [kind |-> "SIPropUnit", k |-> prop_constant, dim |-> D]
SIPropUnit_new(prop_constant, D) == [kind |-> "SIPropUnit", k |-> prop_constant, dim |-> D]
SICompUnit_new(proportionnality_constant, D) ==
    [kind |-> "SICompUnit", k |-> proportionnality_constant, dim |-> D]

\* impl Unit<T> for SIUnit<D>
\* Faulty variant of SIUnit_Unit_new: adds 0.0 to the value.
SIUnit_Unit_newM(u, value) == Quantity_from_si(FAdd(value, Zero), u.dim)
SIUnit_Unit_new(u, value) == Quantity_from_si(value, u.dim)
SIUnit_Unit_get(u, quantity) == Quantity_get_si(quantity)

\* impl Unit<T> for SIUnitTyped<D, K>, and its SIProportionalUnit::prop_constant
SIUnitTyped_Unit_new(u, value) == Quantity_from_si(value, u.dim)
SIUnitTyped_Unit_get(u, quantity) == Quantity_get_si(quantity)
SIUnitTyped_prop_constant(u) == One

\* SIProportionalUnit::prop_constant for SIPropUnit<K, D>
SIPropUnit_prop_constant(u) == u.k

\* The blanket impl Unit<T> for U: SIProportionalUnit + AutoImplementSIProportionalUnit
\* (SIPropUnit is the type that opts in).
\* Faulty variant of PropUnit_Unit_new: divides by the constant.
PropUnit_Unit_newM(u, value) ==
    Quantity_from_si(FDiv(value, SIPropUnit_prop_constant(u)), u.dim)
PropUnit_Unit_new(u, value) ==
    Quantity_from_si(FMul(value, SIPropUnit_prop_constant(u)), u.dim)
\* Faulty variant of PropUnit_Unit_get: multiplies by the constant.
PropUnit_Unit_getM(u, quantity) ==
    FMul(Quantity_get_si(quantity), SIPropUnit_prop_constant(u))
PropUnit_Unit_get(u, quantity) ==
    FDiv(Quantity_get_si(quantity), SIPropUnit_prop_constant(u))

\* SICompatibleUnit::get_prop_constant for SICompUnit<D>, and the blanket
\* impl Unit<D> for U: SICompatibleUnit<D>
SICompUnit_get_prop_constant(u) == u.k
SICompat_set(u, amt) ==
    LegacyQuantity_from(FMul(amt, SICompUnit_get_prop_constant(u)), u.dim)
SICompat_get(u, quantity) ==
    LET si == LegacyQuantity_into(quantity)
    IN  FDiv(si, SICompUnit_get_prop_constant(u))

\* Dimension::get_runtime_dim and RuntimeDimension (crate::dimension); the
\* exponents are the dimension's associated typenum integers L, M, T, I, Th,
\* N, J, read with to_i64.
RuntimeDimension_new(length, mass, time, electric_current, temperature, amount_of_substance, luminous_intensity) ==
    [length |-> length, mass |-> mass, time |-> time,
     electric_current |-> electric_current, temperature |-> temperature,
     amount_of_substance |-> amount_of_substance,
     luminous_intensity |-> luminous_intensity]

\* Faulty variant of Dimension_get_runtime_dim: mass and time swapped.
Dimension_get_runtime_dimM(D) ==
    RuntimeDimension_new(D[1], D[3], D[2], D[4], D[5], D[6], D[7])
Dimension_get_runtime_dim(D) ==
    RuntimeDimension_new(D[1], D[2], D[3], D[4], D[5], D[6], D[7])

\* #[derive(PartialEq, Eq)] on RuntimeDimension
RuntimeDimension_eq(x, y) ==
    /\ x.length = y.length
    /\ x.mass = y.mass
    /\ x.time = y.time
    /\ x.electric_current = y.electric_current
    /\ x.temperature = y.temperature
    /\ x.amount_of_substance = y.amount_of_substance
    /\ x.luminous_intensity = y.luminous_intensity

\* Unit::get_dimension of the blanket impl for U: SICompatibleUnit<D>
SICompat_get_dimension(u) == Dimension_get_runtime_dim(u.dim)

\* The operators of SIPropUnit<K, D>: X_bound is the where clause on the
\* dimensions, X the method.
SIPropUnit_add_bound(l, r) == DimImplements("Add", l.dim, r.dim)
SIPropUnit_add(l, r) ==
    SIPropUnit_new(FAdd(l.k, r.k), DimOutput("Add", l.dim, r.dim))

SIPropUnit_div_bound(l, r) == DimImplements("Div", l.dim, r.dim)
\* Faulty variant of SIPropUnit_div: the operands swapped.
SIPropUnit_divM(l, r) ==
    SIPropUnit_new(FDiv(r.k, l.k), DimOutput("Div", l.dim, r.dim))
SIPropUnit_div(l, r) ==
    SIPropUnit_new(FDiv(l.k, r.k), DimOutput("Div", l.dim, r.dim))

SIPropUnit_mul_bound(l, r) == DimImplements("Mul", l.dim, r.dim)
SIPropUnit_mul(l, r) ==
    SIPropUnit_new(FMul(l.k, r.k), DimOutput("Mul", l.dim, r.dim))

SIPropUnit_sub_bound(l, r) == DimImplements("Sub", l.dim, r.dim)
SIPropUnit_sub(l, r) ==
    SIPropUnit_new(FSub(l.k, r.k), DimOutput("Sub", l.dim, r.dim))

SIPropUnit_rem_bound(l, r) == DimImplements("Rem", l.dim, r.dim)
SIPropUnit_rem(l, r) ==
    SIPropUnit_new(FRem(l.k, r.k), DimOutput("Rem", l.dim, r.dim))

SIPropUnit_neg_bound(u) == DimNegImplements(u.dim)
SIPropUnit_neg(u) == SIPropUnit_new(FNeg(u.k), DimNegOutput(u.dim))

\* The in-place operators of SIPropUnit<K, D>: the right operand is a SIPropUnit<K, D> of
\* the same D, D has the in-place operator, and self keeps its type.
SIPropUnit_assign_bound(u, r, has) == r.dim = u.dim /\ has

SIPropUnit_add_assign(u, r) == [u EXCEPT !.k = FAdd(u.k, r.k)]

SIPropUnit_div_assign(u, r) == [u EXCEPT !.k = FDiv(u.k, r.k)]

\* Faulty variant of SIPropUnit_mul_assign: the constants added.
SIPropUnit_mul_assignM(u, r) == [u EXCEPT !.k = FAdd(u.k, r.k)]
SIPropUnit_mul_assign(u, r) == [u EXCEPT !.k = FMul(u.k, r.k)]

SIPropUnit_sub_assign(u, r) == [u EXCEPT !.k = FSub(u.k, r.k)]

SIPropUnit_rem_assign(u, r) == [u EXCEPT !.k = FRem(u.k, r.k)]

\* The type checker's rule for unit.get(quantity): the quantity's type is the
\* unit's quantity type, with the unit's Dimension.
Accepts(u, quantity) ==
    /\ quantity.dim = u.dim
    /\ quantity.ty = (IF u.kind = "SICompUnit" THEN "legacy" ELSE "core")

\* ------------------------------------------------------------------------
\* Placeholders for the variables a specification does not use.
NoFloat == NaN
NoUnit == [kind |-> "none", k |-> NaN, dim |-> Dimensionless]
NoQuantity == [ty |-> "none", value |-> NaN, dim |-> Dimensionless]
NoDim == Dimensionless

\* Constants the extracting unit is drawn from (besides the constructing
\* unit's own constant).
ProbeConstants == { One, Two, Half, Zero, FNeg(Two), Inf(FALSE), NaN }

\* ------------------------------------------------------------------------
\* SpecUnit: a caller constructs a quantity from `amount` through a unit and
\* reads it back through a unit of the same dimension.

InitUnit ==
    /\ pc = "start"
    /\ amount \in Floats
    /\ madeBy = NoUnit /\ readBy = NoUnit
    /\ qty = NoQuantity /\ out = NoFloat
    /\ lhs = NoQuantity /\ rhs = NoQuantity /\ qres = NoQuantity
    /\ ul = NoUnit /\ ur = NoUnit /\ ures = NoUnit
    /\ da = NoDim /\ db = NoDim /\ dc = NoDim /\ dres = NoDim

OtherVarsUnit == <<amount, lhs, rhs, qres, ul, ur, ures, da, db, dc, dres>>

Made(u, q) ==
    /\ pc = "start"
    /\ madeBy' = u
    /\ qty' = q
    /\ pc' = "made"
    /\ UNCHANGED <<readBy, out>>
    /\ UNCHANGED OtherVarsUnit

Read(u, x) ==
    /\ pc = "made"
    /\ Accepts(u, qty)
    /\ readBy' = u
    /\ out' = x
    /\ pc' = "read"
    /\ UNCHANGED <<madeBy, qty>>
    /\ UNCHANGED OtherVarsUnit

NewBySIUnit ==
    \E D \in UnitDims :
        LET u == SIUnit_new(D) IN Made(u, SIUnit_Unit_new(u, amount))

NewBySIUnitTyped ==
    \E D \in UnitDims :
        LET u == SIUnitTyped_new(D) IN Made(u, SIUnitTyped_Unit_new(u, amount))

NewBySIPropUnit ==
    \E D \in UnitDims, k \in Floats :
        LET u == SIPropUnit_new(k, D) IN Made(u, PropUnit_Unit_new(u, amount))

SetBySICompUnit ==
    \E D \in UnitDims, k \in Floats :
        LET u == SICompUnit_new(k, D) IN Made(u, SICompat_set(u, amount))

GetBySIUnit ==
    \E D \in UnitDims :
        LET u == SIUnit_new(D) IN Read(u, SIUnit_Unit_get(u, qty))

GetBySIUnitTyped ==
    \E D \in UnitDims :
        LET u == SIUnitTyped_new(D) IN Read(u, SIUnitTyped_Unit_get(u, qty))

GetBySIPropUnit ==
    \E D \in UnitDims, k \in ProbeConstants \cup { madeBy.k } :
        LET u == SIPropUnit_new(k, D) IN Read(u, PropUnit_Unit_get(u, qty))

GetBySICompUnit ==
    \E D \in UnitDims, k \in ProbeConstants \cup { madeBy.k } :
        LET u == SICompUnit_new(k, D) IN Read(u, SICompat_get(u, qty))

NextUnit ==
    \/ NewBySIUnit
    \/ NewBySIUnitTyped
    \/ NewBySIPropUnit
    \/ SetBySICompUnit
    \/ GetBySIUnit
    \/ GetBySIUnitTyped
    \/ GetBySIPropUnit
    \/ GetBySICompUnit

SpecUnit == InitUnit /\ [][NextUnit]_vars

\* ------------------------------------------------------------------------
\* Claims about units (checked under SpecUnit).

Abs(n) == IF n < 0 THEN 0 - n ELSE n

\* x is v up to rounding: finite, and v itself or a float next to v.
UpToRounding(x, v) ==
    /\ IsFinite(x)
    /\ Abs(Signed(x) - Signed(v)) <= Ulp(v.mag)

IsProportional(u) == u.kind \in { "SIPropUnit", "SICompUnit" }
IsNormal(x) == IsFinite(x) /\ x.mag >= Pow2(Prec - 1)

\* The caller read the quantity back through the unit that constructed it.
RoundTripDone == pc = "read" /\ readBy = madeBy /\ IsProportional(madeBy)

\* The tolerance of the round-trip test, read generously: an absolute error
\* of 1.0.
Tolerance == Pow2(FracBits)

\* C1 as stated: for every proportional unit with a constant k # 0 (a number:
\* finite) and every finite amount v, get(new(v)) gives v back up to rounding:
\* a finite number next to v, or within the tolerance of v.
C1_AsStated ==
    (RoundTripDone /\ IsFinite(madeBy.k) /\ ~IsZero(madeBy.k) /\ IsFinite(amount))
        => /\ IsFinite(out)
           /\ \/ UpToRounding(out, amount)
              \/ Abs(Signed(out) - Signed(amount)) <= Tolerance

\* C1 as amended: for every proportional unit (SIPropUnit through the blanket
\* impl, SICompUnit through the f64 impl) with a finite constant k # 0 and every
\* finite amount v whose stored magnitude v*k neither overflows nor underflows
\* (it is a normal finite number, or v is zero), get(new(v)) is finite and is v
\* or a float adjacent to v; and when the product v*k is exact, get(new(v)) is
\* exactly v.
C1_RoundTrip ==
    (RoundTripDone /\ IsFinite(madeBy.k) /\ ~IsZero(madeBy.k) /\ IsFinite(amount))
        => /\ (IsNormal(qty.value) \/ IsZero(amount)) => UpToRounding(out, amount)
           /\ (/\ IsFinite(qty.value)
               /\ qty.value.mag * Pow2(FracBits) = amount.mag * madeBy.k.mag)
                  => out = amount

\* A round trip in which both conversions rounded and the result is the float
\* next to the amount.
C1_Witness ==
    /\ RoundTripDone
    /\ madeBy.kind = "SICompUnit"
    /\ IsFinite(madeBy.k) /\ IsFinite(amount)
    /\ IsNormal(qty.value)
    /\ out # amount
    /\ UpToRounding(out, amount)

\* C2: construction through a proportional unit with constant k stores
\* amount*k; extraction through a proportional unit with constant k' returns
\* magnitude/k' and through the SI unit the magnitude itself; 5 through k = 2 is
\* stored as 10, read as 10 through the SI unit and as 5 through the same unit.
C2_Conversion ==
    /\ (pc \in { "made", "read" } /\ IsProportional(madeBy))
          => /\ qty.value = FMul(amount, madeBy.k)
             /\ qty.dim = madeBy.dim
             /\ (amount = Lit(5) /\ madeBy.k = Two) => qty.value = Lit(10)
    /\ (pc = "read" /\ IsProportional(readBy))
          => /\ out = FDiv(qty.value, readBy.k)
             /\ (qty.value = Lit(10) /\ readBy.k = Two) => out = Lit(5)
    /\ (pc = "read" /\ readBy.kind = "SIUnit") => out = qty.value
    /\ (pc = "read" /\ amount = Lit(5) /\ IsProportional(madeBy) /\ madeBy.k = Two)
          => /\ readBy.kind = "SIUnit" => out = Lit(10)
             /\ readBy = madeBy => out = Lit(5)

C2_Witness ==
    /\ pc = "read"
    /\ amount = Lit(5)
    /\ madeBy = SIPropUnit_new(Two, Length)
    /\ qty.value = Lit(10)
    /\ readBy = madeBy
    /\ out = Lit(5)

IsSI(u) == u.kind \in { "SIUnit", "SIUnitTyped" }

\* C3: SIUnit::new(v) and SIUnitTyped::new(v) store exactly v, their get
\* returns exactly the stored magnitude (no arithmetic: NaN, the infinities
\* and the sign of zero included), and SIUnitTyped's constant is one.
C3_IdentityUnit ==
    /\ (pc \in { "made", "read" } /\ IsSI(madeBy)) => qty.value = amount
    /\ (pc = "read" /\ IsSI(readBy)) => out = qty.value
    /\ (pc \in { "made", "read" } /\ madeBy.kind = "SIUnitTyped")
          => SIUnitTyped_prop_constant(madeBy) = One

C3_Witness ==
    /\ pc = "read"
    /\ madeBy.kind = "SIUnit"
    /\ readBy.kind = "SIUnitTyped"
    /\ amount = Fin(TRUE, 0)
    /\ out = Fin(TRUE, 0)

\* C13: the constructors of the proportional units take every constant, zero
\* included, and return the unit; construction through a unit of constant zero
\* yields a quantity of magnitude zero (NaN from an infinite or NaN amount), and
\* extraction through one yields an infinity (NaN from a zero or NaN
\* magnitude): a float in every case, no error.
C13_ZeroConstant ==
    /\ pc \in { "made", "read" } =>
          /\ madeBy.kind \in { "SIUnit", "SIUnitTyped", "SIPropUnit", "SICompUnit" }
          /\ madeBy.k \in Floats
          /\ qty.ty \in { "core", "legacy" } /\ qty.value \in Floats
          /\ (madeBy.kind \in { "SIPropUnit", "SICompUnit" } /\ IsZero(madeBy.k)) =>
                /\ IsFinite(amount) => IsZero(qty.value)
                /\ ~IsFinite(amount) => IsNaN(qty.value)
    /\ pc = "read" =>
          /\ readBy.kind \in { "SIUnit", "SIUnitTyped", "SIPropUnit", "SICompUnit" }
          /\ out \in Floats
          /\ (readBy.kind \in { "SIPropUnit", "SICompUnit" } /\ IsZero(readBy.k)) =>
                /\ out.cls \in { "inf", "nan" }
                /\ IsNaN(out) <=> (IsZero(qty.value) \/ IsNaN(qty.value))
                /\ ~IsNaN(out) => (out.neg <=> (qty.value.neg # readBy.k.neg))

C13_Witness ==
    /\ pc = "read"
    /\ madeBy = SIPropUnit_new(Zero, Length)
    /\ readBy = madeBy
    /\ amount = Two
    /\ qty = Quantity_from_si(Zero, Length)
    /\ out = NaN

\* ------------------------------------------------------------------------
\* SpecQuantity: a caller holds two quantities and applies one operator of
\* core::Quantity to them.  An expression whose where clause fails does not
\* compile: it yields no quantity (Rejected).

Rejected == [ty |-> "rejected", value |-> NaN, dim |-> Dimensionless]

Quantities == { Quantity_from_si(v, D) : v \in Floats, D \in QtyDims }

InitQuantity ==
    /\ pc = "start"
    /\ lhs \in Quantities
    /\ rhs \in Quantities
    /\ qres = NoQuantity
    /\ amount = NoFloat /\ out = NoFloat
    /\ madeBy = NoUnit /\ readBy = NoUnit /\ qty = NoQuantity
    /\ ul = NoUnit /\ ur = NoUnit /\ ures = NoUnit
    /\ da = NoDim /\ db = NoDim /\ dc = NoDim /\ dres = NoDim

Applied(op, res) ==
    /\ pc = "start"
    /\ pc' = op
    /\ qres' = res
    /\ UNCHANGED <<amount, madeBy, qty, readBy, out, lhs, rhs, ul, ur, ures,
                   da, db, dc, dres>>

QAdd == Applied("add", IF Quantity_add_bound(lhs, rhs) THEN Quantity_add(lhs, rhs) ELSE Rejected)
QSub == Applied("sub", IF Quantity_sub_bound(lhs, rhs) THEN Quantity_sub(lhs, rhs) ELSE Rejected)
QRem == Applied("rem", IF Quantity_rem_bound(lhs, rhs) THEN Quantity_rem(lhs, rhs) ELSE Rejected)
QMul == Applied("mul", IF Quantity_mul_bound(lhs, rhs) THEN Quantity_mul(lhs, rhs) ELSE Rejected)
QDiv == Applied("div", IF Quantity_div_bound(lhs, rhs) THEN Quantity_div(lhs, rhs) ELSE Rejected)
QNeg == Applied("neg", IF Quantity_neg_bound(lhs) THEN Quantity_neg(lhs) ELSE Rejected)

\* The outcome of a comparison: a bool (==) or an Option<Ordering>.
Compared(v) == [ty |-> "cmp", value |-> v, dim |-> Dimensionless]

\* The caller's operands as values of crate::quantity::Quantity.
LegacyLhs == LegacyQuantity_from(lhs.value, lhs.dim)
LegacyRhs == LegacyQuantity_from(rhs.value, rhs.dim)

QEq ==
    Applied("eq", IF Quantity_cmp_bound(lhs, rhs)
                  THEN Compared(Quantity_eq(lhs, rhs)) ELSE Rejected)
QPartialCmp ==
    Applied("partial_cmp", IF Quantity_cmp_bound(lhs, rhs)
                           THEN Compared(Quantity_partial_cmp(lhs, rhs)) ELSE Rejected)
LegacyEq ==
    Applied("legacy_eq", IF Quantity_cmp_bound(LegacyLhs, LegacyRhs)
                         THEN Compared(LegacyQuantity_eq(LegacyLhs, LegacyRhs)) ELSE Rejected)
LegacyPartialCmp ==
    Applied("legacy_partial_cmp",
            IF Quantity_cmp_bound(LegacyLhs, LegacyRhs)
            THEN Compared(LegacyQuantity_partial_cmp(LegacyLhs, LegacyRhs)) ELSE Rejected)

NextQuantity ==
    \/ QAdd \/ QSub \/ QRem \/ QMul \/ QDiv \/ QNeg
    \/ QEq \/ QPartialCmp \/ LegacyEq \/ LegacyPartialCmp

SpecQuantity == InitQuantity /\ [][NextQuantity]_vars

\* ------------------------------------------------------------------------
\* Claims about quantity arithmetic (checked under SpecQuantity).

\* C4: q1 * q2 has magnitude m1*m2 and the sum of the exponents, q1 / q2 has
\* magnitude m1/m2 and the difference of the exponents; a length of magnitude
\* 10 divided by a time of magnitude 2 is 5 of dimension length/time.
C4_MulDiv ==
    /\ pc = "mul" =>
          /\ qres.ty = "core"
          /\ qres.value = FMul(lhs.value, rhs.value)
          /\ \A i \in 1 .. 7 : qres.dim[i] = lhs.dim[i] + rhs.dim[i]
    /\ pc = "div" =>
          /\ qres.ty = "core"
          /\ qres.value = FDiv(lhs.value, rhs.value)
          /\ \A i \in 1 .. 7 : qres.dim[i] = lhs.dim[i] - rhs.dim[i]
          /\ (lhs = Quantity_from_si(Lit(10), Length) /\ rhs = Quantity_from_si(Two, Time))
                => qres = Quantity_from_si(Lit(5), <<1, 0, -1, 0, 0, 0, 0>>)

C4_Witness ==
    /\ pc = "div"
    /\ lhs = Quantity_from_si(Lit(10), Length)
    /\ rhs = Quantity_from_si(Two, Time)
    /\ qres.value = Lit(5)
    /\ qres.dim = Velocity

\* C5: add and sub exist only between quantities of the same dimension; the
\* result has that dimension and the sum (difference) of the magnitudes;
\* 3 + 4 of one dimension is 7 of that dimension.
C5_AddSub ==
    /\ (pc \in { "add", "sub" } /\ qres # Rejected) => lhs.dim = rhs.dim
    /\ (pc \in { "add", "sub" } /\ lhs.dim = rhs.dim) =>
          /\ qres.ty = "core"
          /\ qres.dim = lhs.dim
          /\ qres.value = (IF pc = "add" THEN FAdd(lhs.value, rhs.value)
                           ELSE FSub(lhs.value, rhs.value))
    /\ (pc = "add" /\ lhs.dim = rhs.dim /\ lhs.value = Lit(3) /\ rhs.value = Lit(4))
          => qres.value = Lit(7)
    /\ (pc = "sub" /\ lhs.dim = rhs.dim /\ lhs.value = Lit(7) /\ rhs.value = Lit(4))
          => qres.value = Lit(3)

C5_Witness ==
    /\ pc = "add"
    /\ lhs = Quantity_from_si(Lit(3), Length)
    /\ rhs = Quantity_from_si(Lit(4), Length)
    /\ qres = Quantity_from_si(Lit(7), Length)

\* C6: the sum, the difference and the remainder of two quantities of
\* differing dimensions (a length and a time, say) are rejected: no quantity
\* results.
C6_Rejection ==
    (pc \in { "add", "sub", "rem" } /\ lhs.dim # rhs.dim) => qres = Rejected

C6_Witness ==
    /\ pc = "add"
    /\ lhs.dim = Length
    /\ rhs.dim = Time
    /\ qres = Rejected

\* C7: -q has the magnitude of q with the sign flipped and the dimension of q.
C7_Neg ==
    pc = "neg" =>
        /\ qres.ty = "core"
        /\ qres.dim = lhs.dim
        /\ qres.value.cls = lhs.value.cls
        /\ qres.value.mag = lhs.value.mag
        /\ ~IsNaN(lhs.value) => qres.value.neg = ~lhs.value.neg

C7_Witness ==
    /\ pc = "neg"
    /\ lhs = Quantity_from_si(Lit(3), Velocity)
    /\ qres = Quantity_from_si(Fin(TRUE, Lit(3).mag), Velocity)

\* C11: two quantities of one dimension are equal iff their magnitudes are
\* (f64 ==: a NaN equals nothing, the two zeros are equal) and are ordered as
\* their magnitudes are; between quantities of different dimensions no
\* comparison exists.
C11_Comparison ==
    /\ (pc \in { "eq", "legacy_eq" } /\ lhs.dim = rhs.dim) =>
          /\ qres.ty = "cmp"
          /\ qres.value <=> FEq(lhs.value, rhs.value)
          /\ (~IsNaN(lhs.value) /\ ~IsNaN(rhs.value))
                => (qres.value <=> Place(lhs.value) = Place(rhs.value))
    /\ (pc \in { "partial_cmp", "legacy_partial_cmp" } /\ lhs.dim = rhs.dim) =>
          /\ qres.ty = "cmp"
          /\ qres.value = FPartialCmp(lhs.value, rhs.value)
          /\ (lhs.value = Lit(3) /\ rhs.value = Lit(4)) => qres.value = "Less"
          /\ (lhs.value = Lit(4) /\ rhs.value = Fin(TRUE, Lit(3).mag))
                => qres.value = "Greater"
          /\ (IsNaN(lhs.value) \/ IsNaN(rhs.value)) => qres.value = "None"
    /\ (pc \in { "eq", "legacy_eq", "partial_cmp", "legacy_partial_cmp" }
            /\ lhs.dim # rhs.dim) => qres = Rejected

C11_Witness ==
    /\ pc = "partial_cmp"
    /\ lhs = Quantity_from_si(Lit(3), Length)
    /\ rhs = Quantity_from_si(Lit(4), Length)
    /\ qres = Compared("Less")

\* ------------------------------------------------------------------------
\* SpecPropUnit: a caller holds two SIPropUnit values and applies one of the
\* unit operators to them.

RejectedUnit == [kind |-> "rejected", k |-> NaN, dim |-> Dimensionless]

PropUnits == { SIPropUnit_new(k, D) : k \in Floats, D \in QtyDims }

InitPropUnit ==
    /\ pc = "start"
    /\ ul \in PropUnits
    /\ ur \in PropUnits
    /\ ures = NoUnit
    /\ amount = NoFloat /\ out = NoFloat
    /\ madeBy = NoUnit /\ readBy = NoUnit /\ qty = NoQuantity
    /\ lhs = NoQuantity /\ rhs = NoQuantity /\ qres = NoQuantity
    /\ da = NoDim /\ db = NoDim /\ dc = NoDim /\ dres = NoDim

UnitApplied(op, res) ==
    /\ pc = "start"
    /\ pc' = op
    /\ ures' = res
    /\ UNCHANGED <<amount, madeBy, qty, readBy, out, lhs, rhs, qres, ul, ur,
                   da, db, dc, dres>>

UAdd == UnitApplied("add", IF SIPropUnit_add_bound(ul, ur) THEN SIPropUnit_add(ul, ur) ELSE RejectedUnit)
USub == UnitApplied("sub", IF SIPropUnit_sub_bound(ul, ur) THEN SIPropUnit_sub(ul, ur) ELSE RejectedUnit)
URem == UnitApplied("rem", IF SIPropUnit_rem_bound(ul, ur) THEN SIPropUnit_rem(ul, ur) ELSE RejectedUnit)
UMul == UnitApplied("mul", IF SIPropUnit_mul_bound(ul, ur) THEN SIPropUnit_mul(ul, ur) ELSE RejectedUnit)
UDiv == UnitApplied("div", IF SIPropUnit_div_bound(ul, ur) THEN SIPropUnit_div(ul, ur) ELSE RejectedUnit)
UNeg == UnitApplied("neg", IF SIPropUnit_neg_bound(ul) THEN SIPropUnit_neg(ul) ELSE RejectedUnit)

NextPropUnit == UAdd \/ USub \/ URem \/ UMul \/ UDiv \/ UNeg

SpecPropUnit == InitPropUnit /\ [][NextPropUnit]_vars

\* C8: the product (quotient) of two proportional units is the proportional
\* unit with the product (quotient) of the constants and the sum (difference)
\* of the exponents; meter (k = 1) divided by a unit of length with constant k
\* is the dimensionless unit with constant 1/k.
C8_UnitComposition ==
    /\ pc = "mul" =>
          /\ ures.kind = "SIPropUnit"
          /\ ures.k = FMul(ul.k, ur.k)
          /\ \A i \in 1 .. 7 : ures.dim[i] = ul.dim[i] + ur.dim[i]
    /\ pc = "div" =>
          /\ ures.kind = "SIPropUnit"
          /\ ures.k = FDiv(ul.k, ur.k)
          /\ \A i \in 1 .. 7 : ures.dim[i] = ul.dim[i] - ur.dim[i]
          /\ (ul = SIPropUnit_new(One, Length) /\ ur.dim = Length)
                => /\ ures.dim = <<0, 0, 0, 0, 0, 0, 0>>
                   /\ ures.k = FDiv(One, ur.k)
                   /\ ur.k = Half => ures.k = Two

C8_Witness ==
    /\ pc = "div"
    /\ ul = SIPropUnit_new(One, Length)
    /\ ur = SIPropUnit_new(Half, Length)
    /\ ures = SIPropUnit_new(Two, Dimensionless)

\* ------------------------------------------------------------------------
\* SpecPropUnitAssign: one operator, by value or in place, on two proportional
\* units.  An in-place operator changes ul; ures then keeps ul as it was
\* before the call (the operator itself returns nothing).

AssignDims == { Dimensionless, Length }

AssignUnits == { SIPropUnit_new(k, D) : k \in Floats, D \in AssignDims }

InitPropUnitAssign ==
    /\ pc = "start"
    /\ ul \in AssignUnits
    /\ ur \in AssignUnits
    /\ ures = NoUnit
    /\ amount = NoFloat /\ out = NoFloat
    /\ madeBy = NoUnit /\ readBy = NoUnit /\ qty = NoQuantity
    /\ lhs = NoQuantity /\ rhs = NoQuantity /\ qres = NoQuantity
    /\ da = NoDim /\ db = NoDim /\ dc = NoDim /\ dres = NoDim

UnitAssigned(op, bound, new) ==
    /\ pc = "start"
    /\ pc' = op
    /\ ul' = IF bound THEN new ELSE ul
    /\ ures' = IF bound THEN ul ELSE RejectedUnit
    /\ UNCHANGED <<amount, madeBy, qty, readBy, out, lhs, rhs, qres, ur,
                   da, db, dc, dres>>

UAddAssign ==
    \E has \in DimAssignImplements :
        UnitAssigned("add_assign", SIPropUnit_assign_bound(ul, ur, has), SIPropUnit_add_assign(ul, ur))
USubAssign ==
    \E has \in DimAssignImplements :
        UnitAssigned("sub_assign", SIPropUnit_assign_bound(ul, ur, has), SIPropUnit_sub_assign(ul, ur))
URemAssign ==
    \E has \in DimAssignImplements :
        UnitAssigned("rem_assign", SIPropUnit_assign_bound(ul, ur, has), SIPropUnit_rem_assign(ul, ur))
UMulAssign ==
    \E has \in DimAssignImplements :
        UnitAssigned("mul_assign", SIPropUnit_assign_bound(ul, ur, has), SIPropUnit_mul_assign(ul, ur))
UDivAssign ==
    \E has \in DimAssignImplements :
        UnitAssigned("div_assign", SIPropUnit_assign_bound(ul, ur, has), SIPropUnit_div_assign(ul, ur))

NextPropUnitAssign ==
    \/ UAdd \/ USub \/ URem \/ UMul \/ UDiv \/ UNeg
    \/ UAddAssign \/ USubAssign \/ URemAssign \/ UMulAssign \/ UDivAssign

SpecPropUnitAssign == InitPropUnitAssign /\ [][NextPropUnitAssign]_vars

\* The constant the operator op gives from the constants a and b.
ConstantBy(op, a, b) ==
    CASE op = "add" -> FAdd(a, b)
      [] op = "sub" -> FSub(a, b)
      [] op = "mul" -> FMul(a, b)
      [] op = "div" -> FDiv(a, b)
      [] op = "rem" -> FRem(a, b)

\* The dimension the dimension algebra gives to A op B, defined for every
\* product and quotient and for the sum, difference and remainder of one
\* dimension.
DimensionDefined(op, A, B) == op \in { "mul", "div" } \/ A = B
DimensionBy(op, A, B) ==
    CASE op = "mul" -> Combine(A, B)
      [] op = "div" -> Combine(A, Negate(B))
      [] OTHER -> A

AssignQuantities == { Quantity_from_si(v, D) : v \in Floats, D \in AssignDims }

InitQuantityAssign ==
    /\ pc = "start"
    /\ lhs \in AssignQuantities
    /\ rhs \in AssignQuantities
    /\ qres = NoQuantity
    /\ amount = NoFloat /\ out = NoFloat
    /\ madeBy = NoUnit /\ readBy = NoUnit /\ qty = NoQuantity
    /\ ul = NoUnit /\ ur = NoUnit /\ ures = NoUnit
    /\ da = NoDim /\ db = NoDim /\ dc = NoDim /\ dres = NoDim

Assigned(op, bound, new) ==
    /\ pc = "start"
    /\ pc' = op
    /\ lhs' = IF bound THEN new ELSE lhs
    /\ qres' = IF bound THEN lhs ELSE Rejected
    /\ UNCHANGED <<amount, madeBy, qty, readBy, out, rhs, ul, ur, ures,
                   da, db, dc, dres>>

QAddAssign ==
    \E has \in DimAssignImplements :
        Assigned("add_assign", Quantity_assign_bound(lhs, rhs, has), Quantity_add_assign(lhs, rhs))
QSubAssign ==
    \E has \in DimAssignImplements :
        Assigned("sub_assign", Quantity_assign_bound(lhs, rhs, has), Quantity_sub_assign(lhs, rhs))
QRemAssign ==
    \E has \in DimAssignImplements :
        Assigned("rem_assign", Quantity_assign_bound(lhs, rhs, has), Quantity_rem_assign(lhs, rhs))
QMulAssign ==
    \E has \in DimAssignImplements :
        Assigned("mul_assign", Quantity_assign_bound(lhs, rhs, has), Quantity_mul_assign(lhs, rhs))
QDivAssign ==
    \E has \in DimAssignImplements :
        Assigned("div_assign", Quantity_assign_bound(lhs, rhs, has), Quantity_div_assign(lhs, rhs))

NextQuantityAssign ==
    \/ QAdd \/ QSub \/ QRem \/ QMul \/ QDiv
    \/ QAddAssign \/ QSubAssign \/ QRemAssign \/ QMulAssign \/ QDivAssign

SpecQuantityAssign == InitQuantityAssign /\ [][NextQuantityAssign]_vars

\* The quantity the by-value operator op gives from l and r.
ByValue(op, l, r) ==
    CASE op = "add" -> Quantity_add(l, r)
      [] op = "sub" -> Quantity_sub(l, r)
      [] op = "mul" -> Quantity_mul(l, r)
      [] op = "div" -> Quantity_div(l, r)
      [] op = "rem" -> Quantity_rem(l, r)

\* C14: an in-place operator (+=, -=, *=, /=, %=) on two quantities of one
\* dimension D leaves in the left operand the magnitude (left op right), the
\* magnitude of the by-value operator, with the tag D, for *= and /= too,
\* where the by-value operator gives the combined dimension.
C14_InPlaceQuantity ==
    \A op \in { "add", "sub", "mul", "div", "rem" } :
        /\ (pc = op \o "_assign" /\ qres # Rejected) =>
              /\ rhs.dim = qres.dim
              /\ lhs.ty = "core"
              /\ lhs.dim = qres.dim
              /\ lhs.value = ConstantBy(op, qres.value, rhs.value)
              /\ lhs.value = ByValue(op, qres, rhs).value
              /\ op = "mul" => ByValue(op, qres, rhs).dim = Combine(qres.dim, rhs.dim)
              /\ op = "div" => ByValue(op, qres, rhs).dim = Combine(qres.dim, Negate(rhs.dim))
        /\ (pc = op \o "_assign" /\ qres = Rejected) => lhs \in AssignQuantities
        /\ (pc = op /\ op \in { "mul", "div" }) =>
              /\ qres.value = ConstantBy(op, lhs.value, rhs.value)
              /\ qres.dim = DimensionBy(op, lhs.dim, rhs.dim)

C14_Witness ==
    /\ pc = "mul_assign"
    /\ qres = Quantity_from_si(Two, Length)
    /\ rhs = Quantity_from_si(Lit(3), Length)
    /\ lhs = Quantity_from_si(Lit(6), Length)
    /\ Quantity_mul(qres, rhs) = Quantity_from_si(Lit(6), Combine(Length, Length))

\* ------------------------------------------------------------------------
\* SpecDimension: the dimension operations on three dimensions.

InitDimension ==
    /\ pc = "start"
    /\ da \in DimSet
    /\ db \in DimSet
    /\ dc \in DimSet
    /\ dres = NoDim
    /\ amount = NoFloat /\ out = NoFloat
    /\ madeBy = NoUnit /\ readBy = NoUnit /\ qty = NoQuantity
    /\ lhs = NoQuantity /\ rhs = NoQuantity /\ qres = NoQuantity
    /\ ul = NoUnit /\ ur = NoUnit /\ ures = NoUnit

DimApplied(op, res) ==
    /\ pc = "start"
    /\ pc' = op
    /\ dres' = res
    /\ UNCHANGED <<amount, madeBy, qty, readBy, out, lhs, rhs, qres, ur, ures,
                   da, db, dc>>

\* D::get_runtime_dim()
GetRuntimeDim ==
    /\ DimApplied("runtime", Dimension_get_runtime_dim(da))
    /\ UNCHANGED ul

\* D1::get_runtime_dim() == D2::get_runtime_dim()
CompareRuntimeDim ==
    /\ DimApplied("eq", [eq |-> RuntimeDimension_eq(Dimension_get_runtime_dim(da),
                                                    Dimension_get_runtime_dim(db))])
    /\ UNCHANGED ul

\* SICompUnit::<D>::new(k).get_dimension()
GetDimension ==
    \E k \in ProbeConstants :
        /\ ul' = SICompUnit_new(k, da)
        /\ DimApplied("unit_dim", SICompat_get_dimension(ul'))

\* The expressions of the group laws.
GroupLaws ==
    /\ DimApplied("laws", [rightId |-> Combine(da, Identity),
                           inverse |-> Combine(da, Negate(da)),
                           assocL |-> Combine(Combine(da, db), dc),
                           assocR |-> Combine(da, Combine(db, dc))])
    /\ UNCHANGED ul

NextDimension == GetRuntimeDim \/ CompareRuntimeDim \/ GetDimension \/ GroupLaws

SpecDimension == InitDimension /\ [][NextDimension]_vars

\* C9: combine(a, identity) = a, combine(a, negate(a)) = identity and
\* combine(combine(a, b), c) = combine(a, combine(b, c)).
C9_GroupLaws ==
    pc = "laws" =>
        /\ dres.rightId = da
        /\ dres.inverse = <<0, 0, 0, 0, 0, 0, 0>>
        /\ dres.assocL = dres.assocR
        /\ \A i \in 1 .. 7 : dres.assocL[i] = da[i] + db[i] + dc[i]

C9_Witness ==
    /\ pc = "laws"
    /\ da = Length /\ db = Negate(Time) /\ dc = Mass
    /\ dres.assocL = <<1, 1, -1, 0, 0, 0, 0>>
    /\ dres.inverse = Identity

\* C10: get_runtime_dim gives the seven exponents in the order L, M, T, I,
\* Th, N, J; two descriptors are equal iff the seven exponents match; a unit's
\* get_dimension is the descriptor of its dimension whatever its constant.
C10_RuntimeDimension ==
    /\ pc \in { "runtime", "unit_dim" } =>
          /\ dres.length = da[1]
          /\ dres.mass = da[2]
          /\ dres.time = da[3]
          /\ dres.electric_current = da[4]
          /\ dres.temperature = da[5]
          /\ dres.amount_of_substance = da[6]
          /\ dres.luminous_intensity = da[7]
    /\ pc = "unit_dim" => ul.dim = da
    /\ pc = "eq" => (dres.eq <=> \A i \in 1 .. 7 : da[i] = db[i])

C10_Witness ==
    /\ pc = "unit_dim"
    /\ da = Force
    /\ ul = SICompUnit_new(Zero, Force)
    /\ dres.length = 1 /\ dres.mass = 1 /\ dres.time = -2

====
